---- MODULE Spec2Model ----
(***************************************************************************)
(* FindHALBypass (src/lib/FindHALBypass.cpp): the analysis that labels the *)
(* MMIO functions of a module as HAL by name (IsHal) and HAL by directory  *)
(* (IsHal2), from the module's call graph and debug metadata, and the      *)
(* printer that splits the result into two sections.                       *)
(*                                                                         *)
(* A std::string is a sequence of one-character strings.  A call graph     *)
(* node is a number: 0 is the node of the null function that the graph     *)
(* keeps in its function map, 1..n are the nodes of the functions (a       *)
(* function and its node carry the same number), and CallsExternalNode is  *)
(* the node the graph keeps outside its function map.                      *)
(*                                                                         *)
(* Four specifications share the state and the actions and differ in the   *)
(* modules they start from: Spec (every small call graph, with call sites  *)
(* added between runs), SpecThreshold (a hub with about ten callers, and   *)
(* the printer), SpecRuns (the module replaced between runs, debug         *)
(* metadata possibly missing) and SpecName (one function with a string     *)
(* from a family, and the printer).                                        *)
(***************************************************************************)
EXTENDS Integers, Sequences, FiniteSets, TLC

\* ------------------------------------------------------------------------
\* std::string
\* ------------------------------------------------------------------------

\* std::string::npos: the "not found" result of find and find_last_of.
npos == -1

UpperCase == <<"A","B","C","D","E","F","G","H","I","J","K","L","M",
               "N","O","P","Q","R","S","T","U","V","W","X","Y","Z">>

LowerCase == <<"a","b","c","d","e","f","g","h","i","j","k","l","m",
               "n","o","p","q","r","s","t","u","v","w","x","y","z">>

\* std::tolower on one unsigned char (C locale).
tolower(c) ==
  IF \E i \in DOMAIN UpperCase : UpperCase[i] = c
    THEN LowerCase[CHOOSE i \in DOMAIN UpperCase : UpperCase[i] = c]
    ELSE c

\* std::transform(Str.begin(), Str.end(), Str.begin(), tolower)
TransformToLower(Str) == [i \in 1..Len(Str) |-> tolower(Str[i])]

\* The least of a non-empty set of integers.
MinOf(S) == CHOOSE x \in S : \A y \in S : x <= y

\* The greatest of a non-empty set of integers.
MaxOf(S) == CHOOSE x \in S : \A y \in S : y <= x

\* Str.find(Pat): the 0-based position of the first occurrence, or npos.
find(Str, Pat) ==
  LET hits == {p \in 0..(Len(Str) - Len(Pat)) :
                 \A k \in 1..Len(Pat) : Str[p + k] = Pat[k]}
  IN IF hits = {} THEN npos ELSE MinOf(hits)

\* Str.find_last_of(Chars): the 0-based position of the last character of
\* Str that is one of Chars, or npos.
find_last_of(Str, Chars) ==
  LET hits == {p \in 0..(Len(Str) - 1) : Str[p + 1] \in Chars}
  IN IF hits = {} THEN npos ELSE MaxOf(hits)

\* Str.substr(0, Count): the first Count characters; npos takes them all.
substr0(Str, Count) ==
  IF Count = npos \/ Count >= Len(Str) THEN Str ELSE SubSeq(Str, 1, Count)

\* ------------------------------------------------------------------------
\* The name heuristic
\* ------------------------------------------------------------------------

kwHal    == <<"h","a","l">>
kwHalt   == <<"h","a","l","t">>
kwDriver == <<"d","r","i","v","e","r">>
kwArch   == <<"a","r","c","h">>
kwSoc    == <<"s","o","c">>
kwCmsis  == <<"c","m","s","i","s">>

\* The same classifier with the std::transform left out.
isHalRegexInternalNoLower(Name) ==
  LET Str == Name
  IN \/ (find(Str, kwHal) # npos /\ find(Str, kwHalt) = npos)
     \/ find(Str, kwDriver) # npos
     \/ find(Str, kwArch) # npos
     \/ find(Str, kwSoc) # npos
     \/ find(Str, kwCmsis) # npos

\* FindHALBypass::isHalRegexInternal
isHalRegexInternal(Name) ==
  LET Str == TransformToLower(Name)
  IN \/ (find(Str, kwHal) # npos /\ find(Str, kwHalt) = npos)
     \/ find(Str, kwDriver) # npos
     \/ find(Str, kwArch) # npos
     \/ find(Str, kwSoc) # npos
     \/ find(Str, kwCmsis) # npos

\* A function without debug metadata: F->getSubprogram() == nullptr.
NoDISub == [none |-> TRUE]

\* FindHALBypass::isHalFuncRegex, applied to F->getSubprogram().  The second
\* component is whether the warning was written to errs().
isHalFuncRegex(DISub) ==
  IF DISub = NoDISub
    THEN [hal |-> FALSE, warned |-> TRUE]
    ELSE [hal |-> \/ isHalRegexInternal(DISub.Name)
                  \/ isHalRegexInternal(DISub.LinkageName)
                  \/ isHalRegexInternal(DISub.Filename)
                  \/ isHalRegexInternal(DISub.Dir),
          warned |-> FALSE]

\* FindHALBypass::isHalFunc
isHalFunc(DISub) == isHalFuncRegex(DISub)

\* ------------------------------------------------------------------------
\* The enriched registry entry
\* ------------------------------------------------------------------------

\* The outcome of a constructor that ended the process.
Crashed == [crashed |-> TRUE]

\* What File->getFilename() and File->getDirectory() can yield when File was
\* read through a null DISubprogram and the process survived the read.
WildFiles ==
  { [Filename |-> <<>>, Dir |-> <<>>],
    [Filename |-> <<"u",".","c">>, Dir |-> <<"/","d","r","v">>] }

\* The body of the constructor once Filename and Dir are at hand.
MMIOFuncFields(Parent, File) ==
  LET FullPath == File.Dir \o <<"/">> \o File.Filename
      Found    == find_last_of(FullPath, {"/", "\\"})
  IN [MMIOIns |-> Parent.MMIOIns, IsHal |-> FALSE, IsHal2 |-> FALSE,
      InDegree |-> 0, TransClosureInDeg |-> 0,
      FullPath |-> FullPath, Dirname |-> substr0(FullPath, Found)]

\* FindHALBypass::MMIOFunc::MMIOFunc: the outcomes of constructing the entry
\* of a function whose subprogram is DISub.  DISub->getFile() on a null
\* DISub is undefined: the process is killed by the read, or goes on with
\* whatever the read produced.
MMIOFuncCtor(Parent, DISub) ==
  IF DISub = NoDISub
    THEN {Crashed} \cup {MMIOFuncFields(Parent, w) : w \in WildFiles}
    ELSE {MMIOFuncFields(Parent,
            [Filename |-> DISub.Filename, Dir |-> DISub.Dir])}

\* ------------------------------------------------------------------------
\* The call graph
\* ------------------------------------------------------------------------

\* CG.getCallsExternalNode(): the node every call to an unknown callee is
\* an edge to; it is not in the graph's function map.
CallsExternalNode == -1

\* CallGraphNode::getFunction(); 0 is the null function.
getFunction(Node) == IF Node >= 1 THEN Node ELSE 0

\* The edge records <<caller, callee>> in the order of the two nested loops
\* "for (auto &I : CG) for (auto &J : *I.second)".
EdgeRecords(Mod) ==
  LET From[i \in 1..(Len(Mod.order) + 1)] ==
        IF i > Len(Mod.order) THEN <<>>
        ELSE [k \in 1..Len(Mod.called[Mod.order[i]]) |->
                <<Mod.order[i], Mod.called[Mod.order[i]][k]>>]
             \o From[i + 1]
  IN From[1]

\* ------------------------------------------------------------------------
\* FindHALBypass::computeCallGraphInDegrees
\* ------------------------------------------------------------------------

\* The body of the inner loop for one edge record: find, then ++.
CountEdge(Map, Callee) ==
  IF Callee \in DOMAIN Map
    THEN [Map EXCEPT ![Callee].InDegree = @ + 1]
    ELSE Map

\* The first loop: every entry's InDegree back to 0.
ResetInDegrees(Map) == [F \in DOMAIN Map |-> [Map[F] EXCEPT !.InDegree = 0]]

\* The function counting callers instead of call sites.
computeCallGraphInDegreesCallers(Map, Mod) ==
  [F \in DOMAIN Map |->
     [Map[F] EXCEPT !.InDegree =
        Cardinality({c \in DOMAIN Mod.called :
                       \E k \in DOMAIN Mod.called[c] : Mod.called[c][k] = F})]]

\* After[i] is the map after the first i edge records.
computeCallGraphInDegrees(Map, Mod) ==
  LET Edges == EdgeRecords(Mod)
      After[i \in 0..Len(Edges)] ==
        IF i = 0 THEN ResetInDegrees(Map)
        ELSE CountEdge(After[i - 1], getFunction(Edges[i][2]))
  IN After[Len(Edges)]

\* ------------------------------------------------------------------------
\* FindHALBypass::computeCallGraphTransClosure
\* ------------------------------------------------------------------------

\* TotNumOfCGN after both numberings: the nodes of the function map and
\* CallsExternalNode.
TotNumOfCGN(Mod) == Len(Mod.order) + 1

\* CGN2Num: the nodes of the function map in iteration order, from 0, and
\* CallsExternalNode last.
CGN2Num(Mod, Node) ==
  IF Node = CallsExternalNode THEN Len(Mod.order)
  ELSE (CHOOSE i \in 1..Len(Mod.order) : Mod.order[i] = Node) - 1

\* The store with row and column swapped.
SetEdgeTransposed(Adj, Mod, Edge) ==
  [Adj EXCEPT ![CGN2Num(Mod, Edge[2]) * TotNumOfCGN(Mod)
                + CGN2Num(Mod, Edge[1])] = 1]

\* The store as a toggle of the cell.
SetEdgeToggle(Adj, Mod, Edge) ==
  [Adj EXCEPT ![CGN2Num(Mod, Edge[1]) * TotNumOfCGN(Mod)
                + CGN2Num(Mod, Edge[2])] = 1 - @]

\* AdjMatrix[Caller * TotNumOfCGN + Callee] = 1 for one edge record.
SetEdge(Adj, Mod, Edge) ==
  [Adj EXCEPT ![CGN2Num(Mod, Edge[1]) * TotNumOfCGN(Mod)
                + CGN2Num(Mod, Edge[2])] = 1]

\* The matrix after the loop over the edge records: After[i] is the matrix
\* after the first i of them.
BuildAdjMatrix(Mod) ==
  LET T     == TotNumOfCGN(Mod)
      Edges == EdgeRecords(Mod)
      After[i \in 0..Len(Edges)] ==
        IF i = 0 THEN [x \in 0..(T * T - 1) |-> 0]
        ELSE SetEdge(After[i - 1], Mod, Edges[i])
  IN After[Len(Edges)]

\* C++ || and && on ints, stored back into an int.
LOr(a, b)  == IF a # 0 \/ b # 0 THEN 1 ELSE 0
LAnd(a, b) == IF a # 0 /\ b # 0 THEN 1 ELSE 0

\* The innermost statement with its && dropped: any I and J are joined.
RelaxCellNoAnd(Adj, T, K, I, J) ==
  [Adj EXCEPT ![I * T + J] = LOr(Adj[I * T + J], Adj[I * T + K])]

\* The innermost statement, on the one matrix.
RelaxCell(Adj, T, K, I, J) ==
  [Adj EXCEPT ![I * T + J] =
     LOr(Adj[I * T + J], LAnd(Adj[I * T + K], Adj[K * T + J]))]

\* The matrices of T * T cells.
Matrices(T) == [0..(T * T - 1) -> {0, 1}]

\* The J loop: From[A, J] is the matrix the loop ends with when it stands
\* at J with matrix A.
LoopJ(Adj, T, K, I) ==
  LET From[A \in Matrices(T), J \in 0..T] ==
        IF J >= T THEN A ELSE From[RelaxCell(A, T, K, I, J), J + 1]
  IN From[Adj, 0]

\* The I loop.
LoopI(Adj, T, K) ==
  LET From[A \in Matrices(T), I \in 0..T] ==
        IF I >= T THEN A ELSE From[LoopJ(A, T, K, I), I + 1]
  IN From[Adj, 0]

\* The K loop.
LoopK(Adj, T) ==
  LET From[A \in Matrices(T), K \in 0..T] ==
        IF K >= T THEN A ELSE From[LoopI(A, T, K), K + 1]
  IN From[Adj, 0]

\* The matrix after the K/I/J loops.
ClosureMatrix(Mod) == LoopK(BuildAdjMatrix(Mod), TotNumOfCGN(Mod))

\* The row added without its diagonal cell.
AddRowOffDiagonal(InDegrees, Adj, T, I) ==
  [J \in 0..(T - 1) |-> InDegrees[J] + (IF J = I THEN 0 ELSE Adj[I * T + J])]

\* One std::transform: row I added into InDegrees.
AddRow(InDegrees, Adj, T, I) ==
  [J \in 0..(T - 1) |-> InDegrees[J] + Adj[I * T + J]]

\* InDegrees after the loop over the rows: the column sums of the matrix.
ColumnSums(Adj, T) ==
  LET After[I \in 0..T] ==
        IF I = 0 THEN [J \in 0..(T - 1) |-> 0]
        ELSE AddRow(After[I - 1], Adj, T, I - 1)
  IN After[T]

computeCallGraphTransClosure(Map, Mod) ==
  LET InDegrees == ColumnSums(ClosureMatrix(Mod), TotNumOfCGN(Mod))
  IN [F \in DOMAIN Map |->
        [Map[F] EXCEPT !.TransClosureInDeg = InDegrees[CGN2Num(Mod, F)]]]

\* ------------------------------------------------------------------------
\* FindHALBypass::callGraphBasedHalIdent
\* ------------------------------------------------------------------------

\* The threshold of the first loop.
HalThreshold == 10

\* HalDirs with > in place of >=.
HalDirsStrict(Map) ==
  {Map[F].Dirname : F \in {G \in DOMAIN Map :
                             Map[G].TransClosureInDeg > HalThreshold}}

\* HalDirs, as the set of its elements.
HalDirs(Map) ==
  {Map[F].Dirname : F \in {G \in DOMAIN Map :
                             Map[G].TransClosureInDeg >= HalThreshold}}

\* The second loop.
MarkHalDirs(Map) ==
  LET Dirs == HalDirs(Map)
  IN [F \in DOMAIN Map |->
        IF Map[F].Dirname \in Dirs THEN [Map[F] EXCEPT !.IsHal2 = TRUE]
        ELSE Map[F]]

callGraphBasedHalIdent(Map, Mod) ==
  MarkHalDirs(
    computeCallGraphTransClosure(computeCallGraphInDegrees(Map, Mod), Mod))

\* ------------------------------------------------------------------------
\* FindHALBypass::runOnModule
\* ------------------------------------------------------------------------

\* MMIOFuncMap.clear()
Clear(Map) == <<>>

\* MMIOFuncMap.insert({F, MF}): a key already there keeps its entry.
Insert(Map, F, MF) ==
  IF F \in DOMAIN Map THEN Map
  ELSE [G \in DOMAIN Map \cup {F} |-> IF G = F THEN MF ELSE Map[G]]

\* The keys of a map in the order its iteration visits them.
KeysInOrder(Keys) ==
  CHOOSE s \in [1..Cardinality(Keys) -> Keys] :
    \A i, j \in 1..Cardinality(Keys) : i < j => s[i] < s[j]

\* One turn of the first loop of runOnModule, from an outcome so far: the
\* constructor, isHalFunc, insert.
InsertOne(o, F, Mod, Registry) ==
  IF o.crashed THEN {o}
  ELSE LET H == isHalFunc(Mod.Subprogram[F])
       IN { IF MF = Crashed THEN [o EXCEPT !.crashed = TRUE]
            ELSE [crashed |-> FALSE,
                  map |-> Insert(o.map, F, [MF EXCEPT !.IsHal = H.hal]),
                  warnings |-> o.warnings + (IF H.warned THEN 1 ELSE 0)]
            : MF \in MMIOFuncCtor(Registry[F], Mod.Subprogram[F]) }

\* The first loop of runOnModule: the set of its outcomes, each the map
\* built, the warnings written to errs(), and whether a constructor ended
\* the process on the way.  After[i] is the set after the first i keys.
InsertAll(Map, Mod, Registry) ==
  LET Keys == KeysInOrder(DOMAIN Registry)
      After[i \in 0..Len(Keys)] ==
        IF i = 0 THEN {[crashed |-> FALSE, map |-> Map, warnings |-> 0]}
        ELSE UNION {InsertOne(o, Keys[i], Mod, Registry) : o \in After[i - 1]}
  IN After[Len(Keys)]

\* runOnModule on the object whose map is Map: the set of its outcomes.
\* One that did not crash carries the map the run returns.
runOnModule(Map, Mod, Registry) ==
  { IF o.crashed THEN o
    ELSE [o EXCEPT !.map = callGraphBasedHalIdent(o.map, Mod)]
    : o \in InsertAll(Clear(Map), Mod, Registry) }

\* ------------------------------------------------------------------------
\* printHALBypassResult
\* ------------------------------------------------------------------------

\* The section split on the directory flag instead.
SectionOfByDirectory(Result, Flag) ==
  [F \in {G \in DOMAIN Result : Result[G].IsHal2 = Flag} |-> Result[F]]

\* The map of the entries of MMIOFuncs whose IsHal is Flag: what the loop
\* inserts into AppFuncs (Flag false) or LibHalFuncs (Flag true).
SectionOf(Result, Flag) ==
  [F \in {G \in DOMAIN Result : Result[G].IsHal = Flag} |-> Result[F]]

\* The two maps handed to printFuncs, under their titles.
printHALBypassResult(Result) ==
  [AppFuncs |-> SectionOf(Result, FALSE),
   LibHalFuncs |-> SectionOf(Result, TRUE)]

\* ------------------------------------------------------------------------
\* State
\* ------------------------------------------------------------------------

VARIABLES
  M,            \* the module: its call graph and its functions' subprograms
  MMIOFuncs,    \* FindMMIOFunc::Result, the MMIO registry of the module
  MMIOFuncMap,  \* the member map of the FindHALBypass object
  status,       \* "idle": no run yet; "returned": the last run returned and
                \* the module is as it was analysed; "stale": the module
                \* changed since; "crashed": a run ended the process
  Res,          \* the registry the last run returned, as the printer gets it
  errs,         \* the warnings the last run wrote to errs()
  OutS          \* the two sections the last printer run wrote

vars == <<M, MMIOFuncs, MMIOFuncMap, status, Res, errs, OutS>>

\* No printer run yet.
NoReport == [none |-> TRUE]

\* FindHALBypass::runOnModule(M, MMIOFuncs) on the object, as called by
\* FindHALBypass::run.
RunOnModule ==
  /\ status # "crashed"
  /\ \E o \in runOnModule(MMIOFuncMap, M, MMIOFuncs) :
       /\ MMIOFuncMap' = o.map
       /\ errs' = o.warnings
       /\ status' = IF o.crashed THEN "crashed" ELSE "returned"
       /\ Res' = IF o.crashed THEN Res ELSE o.map
  /\ UNCHANGED <<M, MMIOFuncs, OutS>>

\* FindHALBypassPrinter::run on the result of the analysis.
PrinterRun ==
  /\ status = "returned"
  /\ OutS' = printHALBypassResult(Res)
  /\ UNCHANGED <<M, MMIOFuncs, MMIOFuncMap, status, Res, errs>>

\* ------------------------------------------------------------------------
\* Modules
\* ------------------------------------------------------------------------

\* "HAL_Init" in /drv/uart.c
SubHalInit ==
  [Name |-> <<"H","A","L","_","I","n","i","t">>,
   LinkageName |-> <<>>,
   Filename |-> <<"u","a","r","t",".","c">>,
   Dir |-> <<"/","d","r","v">>]

\* "delay" in /drv/util.c
SubHelper ==
  [Name |-> <<"d","e","l","a","y">>,
   LinkageName |-> <<>>,
   Filename |-> <<"u","t","i","l",".","c">>,
   Dir |-> <<"/","d","r","v">>]

\* "main" in /app/main.c
SubApp ==
  [Name |-> <<"m","a","i","n">>,
   LinkageName |-> <<>>,
   Filename |-> <<"m","a","i","n",".","c">>,
   Dir |-> <<"/","a","p","p">>]

\* "blink" in soc/led.c, compiled in /app
SubAppSoc ==
  [Name |-> <<"b","l","i","n","k">>,
   LinkageName |-> <<"_","Z","5","b","l","i","n","k","v">>,
   Filename |-> <<"s","o","c","/","l","e","d",".","c">>,
   Dir |-> <<"/","a","p","p">>]

\* The nodes of the function map of a module of n functions, in the two
\* iteration orders modelled: the null function's node first (its key is
\* the least pointer), then the functions upwards or downwards.
OrderOf(n, reversed) ==
  <<0>> \o [i \in 1..n |-> IF reversed THEN n + 1 - i ELSE i]

\* The callees of the call sites of Caller, in site order.
CalleesOf(Sites, Caller) ==
  LET Own == SelectSeq(Sites, LAMBDA e : e[1] = Caller)
  IN [i \in 1..Len(Own) |-> Own[i][2]]

\* The module of n functions whose call sites are Sites.
ModuleOf(n, Sites, reversed, Subs) ==
  [order |-> OrderOf(n, reversed),
   called |-> [c \in 0..n |-> CalleesOf(Sites, c)],
   Subprogram |-> Subs]

\* The registry of the functions in Keys.
RegistryOf(Keys) == [F \in Keys |-> [MMIOIns |-> F]]

\* The place of an edge among the edges of a module of n functions.
EdgeRank(n, e) == e[1] * (n + 2) + e[2] + 1

\* Every list of at most k call sites <<caller, callee>> of a module of n
\* functions, one list per multiset of sites.  A caller is a node of the
\* function map; a callee is a function's node or CallsExternalNode.
SiteLists(n, k) ==
  UNION { {s \in [1..len -> (0..n) \X ((1..n) \cup {CallsExternalNode})] :
             \A i \in 1..(len - 1) : EdgeRank(n, s[i]) <= EdgeRank(n, s[i + 1])}
          : len \in 0..k }

\* The object before its first run, and nothing printed.
Fresh ==
  /\ MMIOFuncMap = <<>>
  /\ status = "idle"
  /\ Res = <<>>
  /\ errs = 0
  /\ OutS = NoReport

\* ------------------------------------------------------------------------
\* Small modules: every call graph of NumFuncs functions and at most
\* MaxSites call sites
\* ------------------------------------------------------------------------

NumFuncs == 2

MaxSites == 3

\* Function 1 is HAL_Init, function 2 its neighbour, the rest application.
SmallSubs ==
  [F \in 1..NumFuncs |->
     IF F = 1 THEN SubHalInit ELSE IF F = 2 THEN SubHelper ELSE SubApp]

Init ==
  /\ \E Sites \in SiteLists(NumFuncs, MaxSites), reversed \in BOOLEAN,
        Keys \in {1..NumFuncs, {1}} :
       /\ M = ModuleOf(NumFuncs, Sites, reversed, SmallSubs)
       /\ MMIOFuncs = RegistryOf(Keys)
  /\ Fresh

\* The module with one more call site, from Caller to Callee.
WithCallSite(Mod, Caller, Callee) ==
  [Mod EXCEPT !.called[Caller] = Append(@, Callee)]

\* A transformation between two runs of the analysis adds one call site to
\* the module.
AddCallSite ==
  /\ status = "returned"
  /\ Len(EdgeRecords(M)) < MaxSites
  /\ \E Caller \in DOMAIN M.called,
        Callee \in DOMAIN M.Subprogram \cup {CallsExternalNode} :
       M' = WithCallSite(M, Caller, Callee)
  /\ status' = "stale"
  /\ UNCHANGED <<MMIOFuncs, MMIOFuncMap, Res, errs, OutS>>

Next == RunOnModule \/ AddCallSite

Spec == Init /\ [][Next]_vars

\* ------------------------------------------------------------------------
\* Fan-in modules: a hub with up to NumCallers callers, around the threshold
\* ------------------------------------------------------------------------

NumCallers == 10

\* The functions of a fan-in module: the hub, its neighbour in the same
\* directory, a function of another directory, and the first of the
\* NumCallers callers, which are numbered from there on.
FanIn == [Hub |-> 1, Neighbour |-> 2, Outsider |-> 3, FirstCaller |-> 4]

\* HAL_Init and delay in /drv, main in /app, the callers in /app/soc.
FanInSubs ==
  [F \in 1..(FanIn.FirstCaller + NumCallers - 1) |->
     IF F = FanIn.Hub THEN SubHalInit
     ELSE IF F = FanIn.Neighbour THEN SubHelper
     ELSE IF F = FanIn.Outsider THEN SubApp ELSE SubAppSoc]

\* The call sites of k callers: each calls the hub (a star), or the first
\* calls the hub and every other one calls the one before it (a chain).
CallerSites(k, chain) ==
  [i \in 1..k |->
     IF chain /\ i > 1 THEN <<FanIn.FirstCaller + i - 1, FanIn.FirstCaller + i - 2>>
     ELSE <<FanIn.FirstCaller + i - 1, FanIn.Hub>>]

\* The call sites of a fan-in module: those of the callers, and on demand
\* the hub calling itself, the null function's node calling the hub, and
\* the hub calling the outsider ("calls"), which may call it back
\* ("mutual").
FanInSites(k, chain, selfRec, root, link) ==
  CallerSites(k, chain)
  \o (IF selfRec THEN << <<FanIn.Hub, FanIn.Hub>> >> ELSE <<>>)
  \o (IF root THEN << <<0, FanIn.Hub>> >> ELSE <<>>)
  \o (IF link # "none" THEN << <<FanIn.Hub, FanIn.Outsider>> >> ELSE <<>>)
  \o (IF link = "mutual" THEN << <<FanIn.Outsider, FanIn.Hub>> >> ELSE <<>>)

\* The numbers of callers tried: none, and the two nearest NumCallers.
CallerCounts == {0, NumCallers - 1, NumCallers}

\* The registries tried: with the hub, without it, with a caller too.
FanInRegistries ==
  { {FanIn.Hub, FanIn.Neighbour, FanIn.Outsider}, {FanIn.Neighbour, FanIn.Outsider},
    {FanIn.Hub, FanIn.Neighbour, FanIn.Outsider, FanIn.FirstCaller} }

InitThreshold ==
  /\ \E k \in CallerCounts, chain \in BOOLEAN, selfRec \in BOOLEAN,
        root \in BOOLEAN, link \in {"none", "calls", "mutual"},
        reversed \in BOOLEAN,
        Keys \in FanInRegistries :
       /\ M = ModuleOf(FanIn.FirstCaller + NumCallers - 1,
                       FanInSites(k, chain, selfRec, root, link),
                       reversed, FanInSubs)
       /\ MMIOFuncs = RegistryOf(Keys)
  /\ Fresh

NextThreshold == RunOnModule \/ PrinterRun

SpecThreshold == InitThreshold /\ [][NextThreshold]_vars

\* ------------------------------------------------------------------------
\* Repeated runs: the module and the registry change between runs, and a
\* function may lack debug metadata
\* ------------------------------------------------------------------------

MaxRunSites == 1

\* The subprograms of the functions, those in NoDebug without one.
RunSubs(NoDebug) ==
  [F \in 1..NumFuncs |->
     IF F \in NoDebug THEN NoDISub
     ELSE IF F = 1 THEN SubHalInit ELSE SubHelper]

\* The inputs of a run: a module and the registry found in it.
RunInputs ==
  { <<ModuleOf(NumFuncs, Sites, FALSE, RunSubs(NoDebug)), RegistryOf(Keys)>> :
      Sites \in SiteLists(NumFuncs, MaxRunSites),
      NoDebug \in {{}, {NumFuncs}},
      Keys \in {1..NumFuncs, {1}} }

InitRuns ==
  /\ \E inp \in RunInputs : M = inp[1] /\ MMIOFuncs = inp[2]
  /\ Fresh

\* Between two runs on the same object the module is replaced by another
\* one, with its registry.
ModuleChange ==
  /\ status # "crashed"
  /\ \E inp \in RunInputs :
       /\ inp # <<M, MMIOFuncs>>
       /\ M' = inp[1]
       /\ MMIOFuncs' = inp[2]
  /\ status' = IF status = "idle" THEN "idle" ELSE "stale"
  /\ UNCHANGED <<MMIOFuncMap, Res, errs, OutS>>

NextRuns == RunOnModule \/ ModuleChange

SpecRuns == InitRuns /\ [][NextRuns]_vars

\* ------------------------------------------------------------------------
\* Names: one function whose name, linkage name, file name or directory is
\* drawn from a family of strings
\* ------------------------------------------------------------------------

MaxTokens == 2

NameTokens ==
  { <<"h","a","l">>,
    <<"H","A","L">>,
    <<"H","a","l">>,
    <<"h","a","l","t">>,
    <<"H","A","L","T">>,
    <<"t">>,
    <<"d","r","i","v","e","r">>,
    <<"D","r","i","v","e","r">>,
    <<"a","r","c","h">>,
    <<"s","o","c">>,
    <<"S","O","C">>,
    <<"c","m","s","i","s">>,
    <<"_">>,
    <<"x">> }

\* The concatenations of at most k tokens.
TokenStrings(k) ==
  LET Upto[i \in 0..k] ==
        IF i = 0 THEN {<<>>}
        ELSE Upto[i - 1] \cup {s \o t : s \in Upto[i - 1], t \in NameTokens}
  IN Upto[k]

\* The strings tried: the concatenations, and three names in full.
NameStrings ==
  TokenStrings(MaxTokens)
  \cup { <<"U","A","R","T","_","H","A","L","T","_","m","s">>,
         <<"H","A","L","_","U","A","R","T">>,
         <<"h","a","l","_","i","n","i","t">> }

\* A subprogram none of whose four strings holds a keyword.
SubPlain ==
  [Name |-> <<"f">>,
   LinkageName |-> <<>>,
   Filename |-> <<"m",".","c">>,
   Dir |-> <<"/","p">>]

SubFields == {"Name", "LinkageName", "Filename", "Dir"}

InitName ==
  /\ \E Str \in NameStrings, field \in SubFields :
       M = ModuleOf(1, <<>>, FALSE,
                    [F \in {1} |-> [SubPlain EXCEPT ![field] = Str]])
  /\ MMIOFuncs = RegistryOf({1})
  /\ Fresh

SpecName == InitName /\ [][NextThreshold]_vars

\* ------------------------------------------------------------------------
\* Reference notions the properties are stated in
\* ------------------------------------------------------------------------

\* The nodes of the graph of Mod, CallsExternalNode among them.
NodesOf(Mod) == DOMAIN Mod.called \cup {CallsExternalNode}

\* Some call site of a calls b.
Calls(Mod, a, b) ==
  a \in DOMAIN Mod.called /\ \E k \in DOMAIN Mod.called[a] : Mod.called[a][k] = b

\* The nodes one call away from a node of S.
Callees(Mod, S) == {b \in NodesOf(Mod) : \E a \in S : Calls(Mod, a, b)}

\* The nodes with a call to a node of S.
Callers(Mod, S) == {a \in DOMAIN Mod.called : \E b \in S : Calls(Mod, a, b)}

\* The nodes a breadth-first traversal from Source reaches in one or more
\* calls: Grow[S] is what it ends with when it has reached S.
ReachedFrom(Mod, Source) ==
  LET Grow[S \in SUBSET NodesOf(Mod)] ==
        LET More == S \cup Callees(Mod, S)
        IN IF More = S THEN S ELSE Grow[More]
  IN Grow[Callees(Mod, {Source})]

\* The nodes from which F is reached in one or more calls, by the traversal
\* against the calls.
Reaching(Mod, F) ==
  LET Grow[S \in SUBSET NodesOf(Mod)] ==
        LET More == S \cup Callers(Mod, S)
        IN IF More = S THEN S ELSE Grow[More]
  IN Grow[Callers(Mod, {F})]

\* The call sites whose callee is F, each as <<caller, place in the caller>>.
CallSitesOf(Mod, F) ==
  {s \in (DOMAIN Mod.called)
            \X (1..MaxOf({Len(Mod.called[c]) : c \in DOMAIN Mod.called})) :
     s[2] <= Len(Mod.called[s[1]]) /\ Mod.called[s[1]][s[2]] = F}

\* The nodes with a call site whose callee is F.
DirectCallers(Mod, F) == {a \in DOMAIN Mod.called : Calls(Mod, a, F)}

\* Two characters that are the same letter in either case, or equal.
SameLetter(a, b) ==
  \/ a = b
  \/ \E i \in DOMAIN UpperCase : {a, b} = {UpperCase[i], LowerCase[i]}

\* Pat occurs in Str, whatever the case of the letters of Str.
ContainsIgnoringCase(Str, Pat) ==
  \E p \in 0..(Len(Str) - Len(Pat)) :
    \A k \in 1..Len(Pat) : SameLetter(Str[p + k], Pat[k])

\* The name rule: "hal" with no "halt" anywhere, or one of the four other
\* keywords.
NameRule(Str) ==
  \/ (ContainsIgnoringCase(Str, kwHal) /\ ~ContainsIgnoringCase(Str, kwHalt))
  \/ \E kw \in {kwDriver, kwArch, kwSoc, kwCmsis} : ContainsIgnoringCase(Str, kw)

\* The registry functions of Mod without a subprogram.
WithoutDebugInfo(Mod, Registry) ==
  {F \in DOMAIN Registry : Mod.Subprogram[F] = NoDISub}

\* ------------------------------------------------------------------------
\* Properties
\* ------------------------------------------------------------------------

\* C2: after a run that returned, TransClosureInDeg of every registry
\* function is the number of nodes from which a breadth-first traversal
\* reaches it in one or more calls, and the matrix the in-place K/I/J loops
\* end with holds 1 exactly at the pairs such a traversal finds, in either
\* numbering of the nodes.
C2_ClosureIsReachability ==
  status = "returned" =>
    /\ \A F \in DOMAIN MMIOFuncMap :
         MMIOFuncMap[F].TransClosureInDeg = Cardinality(Reaching(M, F))
    /\ LET Closed == ClosureMatrix(M)
       IN \A a \in NodesOf(M) :
            LET Reached == ReachedFrom(M, a)
            IN \A b \in NodesOf(M) :
                 (Closed[CGN2Num(M, a) * TotNumOfCGN(M) + CGN2Num(M, b)] = 1)
                   <=> b \in Reached

\* C2 witness: under the downward numbering, a registry function with one
\* direct caller is reached from three nodes, along a chain.
C2_Witness ==
  /\ status = "returned"
  /\ M.order[2] > M.order[Len(M.order)]
  /\ \E F \in DOMAIN MMIOFuncMap :
       /\ MMIOFuncMap[F].TransClosureInDeg = 3
       /\ Cardinality(DirectCallers(M, F)) = 1

\* C3: after a run that returned, InDegree of every registry function is
\* the number of call sites, over all callers, whose callee is that
\* function; a call site whose callee is CallsExternalNode counts for none.
C3_InDegreeCountsCallSites ==
  status = "returned" =>
    \A F \in DOMAIN MMIOFuncMap :
      MMIOFuncMap[F].InDegree = Cardinality(CallSitesOf(M, F))

\* C3 witness: a function called twice by the same caller and by no other
\* has InDegree 2, in a module that also calls CallsExternalNode.
C3_Witness ==
  /\ status = "returned"
  /\ \E F \in DOMAIN MMIOFuncMap :
       /\ MMIOFuncMap[F].InDegree = 2
       /\ Cardinality(DirectCallers(M, F)) = 1
  /\ \E a \in DOMAIN M.called : Calls(M, a, CallsExternalNode)

\* C5: when one call site has been added to the module a run returned for,
\* TransClosureInDeg computed on the grown module is, for every registry
\* function, at least the value that run stored.
C5_AddingEdgeNeverLowers ==
  status = "stale" =>
    \A F \in DOMAIN MMIOFuncMap :
      computeCallGraphTransClosure(MMIOFuncMap, M)[F].TransClosureInDeg
        >= MMIOFuncMap[F].TransClosureInDeg

\* C5 witness: the added call site raises the value of some function.
C5_Witness ==
  /\ status = "stale"
  /\ \E F \in DOMAIN MMIOFuncMap :
       computeCallGraphTransClosure(MMIOFuncMap, M)[F].TransClosureInDeg
         > MMIOFuncMap[F].TransClosureInDeg

\* C9: after a run that returned, InDegree is 0 exactly when
\* TransClosureInDeg is 0, and TransClosureInDeg is at least the number of
\* distinct direct callers.
C9_ZeroTogether ==
  status = "returned" =>
    \A F \in DOMAIN MMIOFuncMap :
      /\ (MMIOFuncMap[F].InDegree = 0) <=> (MMIOFuncMap[F].TransClosureInDeg = 0)
      /\ MMIOFuncMap[F].TransClosureInDeg >= Cardinality(DirectCallers(M, F))

\* C9 witness: the two counters differ in both directions in one result.
C9_Witness ==
  /\ status = "returned"
  /\ \E F, G \in DOMAIN MMIOFuncMap :
       /\ MMIOFuncMap[F].InDegree > MMIOFuncMap[F].TransClosureInDeg
       /\ MMIOFuncMap[G].InDegree < MMIOFuncMap[G].TransClosureInDeg

\* C1: after a run that returned, IsHal2 of a registry function is true
\* exactly when some registry function with the same Dirname, itself or
\* another, has TransClosureInDeg of 10 or more; a same-directory function
\* is marked whatever its own count, and a count of 9 marks nothing.
C1_IsHal2IffDirectoryAtThreshold ==
  status = "returned" =>
    \A F \in DOMAIN MMIOFuncMap :
      MMIOFuncMap[F].IsHal2 <=>
        \E G \in DOMAIN MMIOFuncMap :
          /\ MMIOFuncMap[G].Dirname = MMIOFuncMap[F].Dirname
          /\ MMIOFuncMap[G].TransClosureInDeg >= 10

\* C1 witness: a function with a count of exactly 10 is marked, so is a
\* function of its directory with a count of 0, and a function of another
\* directory is not.
C1_Witness ==
  /\ status = "returned"
  /\ \E F, G, H \in DOMAIN MMIOFuncMap :
       /\ MMIOFuncMap[F].TransClosureInDeg = 10 /\ MMIOFuncMap[F].IsHal2
       /\ G # F /\ MMIOFuncMap[G].Dirname = MMIOFuncMap[F].Dirname
       /\ MMIOFuncMap[G].TransClosureInDeg = 0 /\ MMIOFuncMap[G].IsHal2
       /\ MMIOFuncMap[H].Dirname # MMIOFuncMap[F].Dirname
       /\ ~MMIOFuncMap[H].IsHal2

\* C4: a run on a registry holding a function without a DISubprogram does
\* not end the process: it returns, with that function in the map, its
\* IsHal false, a warning written, and its InDegree and TransClosureInDeg
\* computed as for any other function.
C4_MissingDebugInfoIsNotFatal ==
  (status \in {"returned", "crashed"} /\ WithoutDebugInfo(M, MMIOFuncs) # {}) =>
    /\ status = "returned"
    /\ errs >= 1
    /\ \A F \in WithoutDebugInfo(M, MMIOFuncs) :
         /\ F \in DOMAIN MMIOFuncMap
         /\ ~MMIOFuncMap[F].IsHal
         /\ MMIOFuncMap[F].InDegree = Cardinality(CallSitesOf(M, F))
         /\ MMIOFuncMap[F].TransClosureInDeg = Cardinality(Reaching(M, F))

C8_SectionsPartitionByIsHal ==
  OutS # NoReport =>
    /\ DOMAIN OutS.AppFuncs \cap DOMAIN OutS.LibHalFuncs = {}
    /\ DOMAIN OutS.AppFuncs \cup DOMAIN OutS.LibHalFuncs = DOMAIN Res
    /\ \A F \in DOMAIN Res :
         /\ F \in DOMAIN OutS.LibHalFuncs <=> Res[F].IsHal
         /\ F \in DOMAIN OutS.AppFuncs <=> ~Res[F].IsHal
         /\ F \in DOMAIN OutS.LibHalFuncs => OutS.LibHalFuncs[F] = Res[F]
         /\ F \in DOMAIN OutS.AppFuncs => OutS.AppFuncs[F] = Res[F]

\* C8 witness: the application section holds a function whose IsHal2 is
\* true, and the Hal section one whose IsHal2 is false.
C8_Witness ==
  /\ OutS # NoReport
  /\ \E F \in DOMAIN OutS.AppFuncs : OutS.AppFuncs[F].IsHal2
  /\ \E F \in DOMAIN OutS.LibHalFuncs :
       /\ ~OutS.LibHalFuncs[F].IsHal2
       /\ OutS.LibHalFuncs[F].TransClosureInDeg > 0

\* C10: after a run that returned, TransClosureInDeg of a registry function
\* is the number of other nodes that reach it, plus one exactly when it
\* reaches itself; it is 1 when its only caller is itself; it lies between 0
\* and the number of nodes; and a function reached by 9 other nodes and by
\* itself is at the threshold, so IsHal2 is true for it.
C10_SelfCountedOnCycle ==
  status = "returned" =>
    \A F \in DOMAIN MMIOFuncMap :
      /\ MMIOFuncMap[F].TransClosureInDeg =
           Cardinality(Reaching(M, F) \ {F})
           + (IF F \in Reaching(M, F) THEN 1 ELSE 0)
      /\ DirectCallers(M, F) = {F} => MMIOFuncMap[F].TransClosureInDeg = 1
      /\ MMIOFuncMap[F].TransClosureInDeg \in 0..Cardinality(NodesOf(M))
      /\ (Cardinality(Reaching(M, F) \ {F}) = 9 /\ F \in Reaching(M, F))
           => MMIOFuncMap[F].IsHal2

\* C10 witness: a function that calls itself and is reached by exactly 9
\* other nodes has a count of 10 and is marked.
C10_Witness ==
  /\ status = "returned"
  /\ \E F \in DOMAIN MMIOFuncMap :
       /\ Calls(M, F, F)
       /\ Cardinality(Reaching(M, F) \ {F}) = 9
       /\ MMIOFuncMap[F].TransClosureInDeg = 10
       /\ MMIOFuncMap[F].IsHal2

====
